---- MODULE Spec2Model ----
(***************************************************************************)
(* Model of dpi/dpi_wrapper.cc: the C-callable DPI boundary around one     *)
(* process-wide Spike instance (g_sim), its four configuration overrides   *)
(* and the process-wide mutex g_mutex.                                     *)
(*                                                                         *)
(* 64-bit quantities (uint64_t, reg_t, size_t on the LP64 hosts Spike      *)
(* builds for) are written as four 16-bit limbs, most significant first:   *)
(* <<0, 0, 32768, 0>> is 0x0000_0000_8000_0000.  The casts (reg_t)pc and   *)
(* (size_t)size of the wrapper are between 64-bit unsigned types and keep  *)
(* all four limbs.                                                         *)
(*                                                                         *)
(* The engine (sim_t, processor_t: sim.h) is not part of dpi_wrapper.cc;   *)
(* the definitions prefixed Eng model it from the specification, and every *)
(* call into it may raise a fault, which is what the wrapper's try/catch   *)
(* blocks are written for.                                                 *)
(***************************************************************************)
EXTENDS Integers, Sequences, FiniteSets, TLC

\* ------------------------------------------------------------------ bounds
\* Engine steps taken since the last reset that the model follows.
MaxSteps == 1
\* Threads of the concurrent specification SpecMT.
NThreads == 2

\* --------------------------------------------------------------- constants
\* static sim_t *g_sim = nullptr;
NULL == 0
\* The address of the one engine object a create allocates.
SIM == 1
\* uint64_t out[32]: the architectural general-purpose registers.
NXPR == 32

\* A null const char* argument, and an empty std::optional.
NULLSTR == "<null>"
NOSTR == "<nullopt>"
NOU64 == <<>>

U64Zero == <<0, 0, 0, 0>>

g_isa_default == "RV64GC"
g_dram_base_default == <<0, 0, 32768, 0>>
g_dram_size_default == <<0, 0, 8192, 0>>
g_initial_pc_default == <<0, 0, 32768, 0>>

\* ------------------------------------------------------------ input values
IsaArgs == {NULLSTR, "RV32IMC"}
BaseArgs == {<<0, 0, 36864, 0>>}
SizeArgs == {<<0, 0, 4096, 0>>}
\* 0x8000_2000, and 0x1_8000_2000 whose low 32 bits are 0x8000_2000.
PcArgs == {<<0, 0, 32768, 8192>>, <<0, 1, 32768, 8192>>}
PathArgs == {NULLSTR, "prog.elf"}
\* config->hartids = {0}: hart 0 exists, hart 1 does not.
HartArgs == {0, 1}
\* An accessor call on a live instance: the hart asked for, and whether the
\* engine raises a fault in it.
AccCases == {<<0, FALSE>>, <<0, TRUE>>, <<1, FALSE>>}
\* The same with an output buffer argument.
BufCases == {<<0, FALSE, "buf">>, <<0, TRUE, "buf">>, <<1, FALSE, "buf">>,
             <<0, FALSE, "null">>}
\* The same with a CSR address: mstatus (768, writable) and mvendorid
\* (3857, read-only).
CsrCases == {<<0, FALSE, 768>>, <<0, TRUE, 768>>, <<1, FALSE, 768>>,
             <<0, FALSE, 3857>>}
\* spike_get_all_vregs calls: hart, fault, buffer, out_size_qwords.
VregCases == {<<0, FALSE, "buf", 3>>, <<0, FALSE, "buf", 64>>,
              <<0, FALSE, "buf", 70>>, <<0, FALSE, "buf", 0>>,
              <<0, FALSE, "null", 64>>, <<0, TRUE, "buf", 64>>,
              <<1, FALSE, "buf", 64>>}

VARIABLES
  g_sim,                  \* the instance handle: NULL or SIM
  sim,                    \* the engine object g_sim points to (NoSim when none)
  g_isa_override,
  g_dram_base_override,
  g_dram_size_override,
  g_initial_pc_override,
  hist,                   \* history: the latest argument of each setter,
                          \* and how the live instance came to be
  lastOp,                 \* the call that returned last, and what it returned
  g_mutex,                \* SpecMT: the thread holding g_mutex, or 0
  tpc,                    \* SpecMT: where each thread is in its call
  tloc                    \* SpecMT: each thread's out[] buffer and cursor

cfgVars == <<g_isa_override, g_dram_base_override, g_dram_size_override,
             g_initial_pc_override>>
progVars == <<g_sim, sim, g_isa_override, g_dram_base_override,
              g_dram_size_override, g_initial_pc_override>>
mtVars == <<g_mutex, tpc, tloc>>
vars == <<g_sim, sim, g_isa_override, g_dram_base_override,
          g_dram_size_override, g_initial_pc_override, hist, lastOp,
          g_mutex, tpc, tloc>>

Threads == 1..NThreads

\* ------------------------------------------------------------------ engine
\* A small unsigned value widened to 64 bits.
U64Of(n) == <<0, 0, n \div 65536, n % 65536>>

\* v + 4 modulo 2^64, limb by limb.
U64Add4(v) ==
  LET l4 == v[4] + 4
      c4 == l4 \div 65536
      l3 == v[3] + c4
      c3 == l3 \div 65536
      l2 == v[2] + c3
      c2 == l2 \div 65536
      l1 == v[1] + c2
  IN  <<l1 % 65536, l2 % 65536, l3 % 65536, l4 % 65536>>

\* The vector register width the engine is built with for an ISA string.
EngVlen(isa) == IF isa = "RV32IMC" THEN 0 ELSE 128

\* No engine object: g_sim is null, or the object was destroyed.
NoSim ==
  [alive |-> FALSE, isa |-> NOSTR, dram_base |-> NOU64, dram_size |-> NOU64,
   started |-> FALSE, was_reset |-> FALSE, pc |-> U64Zero,
   nsteps |-> 0, xwr |-> 0, csr |-> 0, vlen |-> 0]

\* The register width the ISA string selects.
EngXlen(isa) == IF isa = "RV32IMC" THEN 32 ELSE 64

\* A PC value as the engine of that width holds it.
EngTruncPc(isa, pc) == IF EngXlen(isa) = 32 THEN <<0, 0, pc[3], pc[4]>> ELSE pc

\* The PC the engine's reset leaves.
EngResetPc == <<0, 0, 0, 4096>>

\* sim_t's constructor: the engine built from the configuration and memory.
EngConstruct(isa, base, size) ==
  [alive |-> TRUE, isa |-> isa, dram_base |-> base, dram_size |-> size,
   started |-> FALSE, was_reset |-> FALSE, pc |-> U64Zero,
   nsteps |-> 0, xwr |-> 0, csr |-> 0, vlen |-> EngVlen(isa)]

\* General-purpose register i (1..NXPR).  A step gives every register its
\* next value, one register after the other: nsteps steps are complete and
\* the step in progress, if any, has written registers 1..xwr.
EngXPR(s, i) == IF i <= s.xwr THEN s.nsteps + 1 ELSE s.nsteps

EngStart(s) == [s EXCEPT !.started = TRUE]

\* dpi_reset: architectural state back to its reset values.
EngReset(s) ==
  [s EXCEPT !.was_reset = TRUE, !.pc = EngResetPc,
            !.nsteps = 0, !.xwr = 0, !.csr = 0]

\* dpi_set_pc
EngSetPc(s, pc) == [s EXCEPT !.pc = EngTruncPc(s.isa, pc)]

\* dpi_step(1), the part that writes one more register.
EngStepWrite(s) == [s EXCEPT !.xwr = s.xwr + 1]

\* dpi_step(1), its end: all registers written, the PC advanced.
EngStepDone(s) ==
  [s EXCEPT !.pc = EngTruncPc(s.isa, U64Add4(s.pc)),
            !.nsteps = s.nsteps + 1, !.xwr = 0]

\* dpi_step(1) run from start to end: one scheduling unit.
EngStep(s) == EngStepDone([s EXCEPT !.xwr = NXPR])

\* The status codes dpi_step returns.
EngStepStatus == {0, 1}

\* get_core_by_id: the processor of a hart, or none.
EngHasCore(s, hartid) == hartid = 0

\* The value a put_csr call writes.
CsrValues == {1}

\* processor_t::put_csr: a write to a read-only register is dropped.
EngPutCsr(s, addr, value) == IF addr = 768 THEN [s EXCEPT !.csr = value] ELSE s

\* The value a CSR read gives.
EngCsrRead(s, addr) == IF addr = 768 THEN U64Of(s.csr) ELSE U64Zero

\* The vector unit's control/status fields, as the engine's objects read.
EngVxsat(s) == U64Of(1)
EngVxrm(s) == U64Of(2)
EngVstart(s) == U64Of(0)
EngVl(s) == U64Of(s.vlen \div 8)
EngVtype(s) == U64Of(8)

\* VU.vlenb, the vector register width in bytes.
EngVlenb(s) == s.vlen \div 8

\* Byte k of the vector register file VU.reg_file (register 0 first).
EngVregByte(s, k) == (7 * k + 3) % 256

\* The raw low 64 bits of floating-point register i.
EngFpr(s, i) == U64Zero

\* ------------------------------------------------------------------- Init
\* history: whether the live instance is as create left it (no step, reset
\* or setPc since), and then whether all four setters had been called with a
\* value before that create and whether create's dpi_set_pc returned.
NotFresh == [on |-> FALSE, all |-> FALSE, applied |-> FALSE]

NoOp == [op |-> "none", ret |-> "void", calls |-> 0, raised |-> FALSE,
         live |-> FALSE, info |-> "none"]

\* A thread's locals outside a call: the function it is in, its loop cursor,
\* the words it has stored to out[], the value it is about to return, and
\* (history) whether a step call of another thread overlapped this call and
\* the engine object as it was when the call passed its lock_guard.
NoLocals == [op |-> "none", i |-> 0, out |-> <<>>, ret |-> 0, ovl |-> FALSE,
             pre |-> NoSim]

Init ==
  /\ g_sim = NULL
  /\ sim = NoSim
  /\ g_isa_override = NOSTR
  /\ g_dram_base_override = NOU64
  /\ g_dram_size_override = NOU64
  /\ g_initial_pc_override = NOU64
  /\ hist = [isa |-> "unset", base |-> NOU64, size |-> NOU64, pc |-> NOU64,
             fresh |-> NotFresh]
  /\ lastOp = NoOp
  /\ g_mutex = 0
  /\ tpc = [t \in Threads |-> "idle"]
  /\ tloc = [t \in Threads |-> NoLocals]

\* What a call records when it returns.
Returned(op, ret, calls, info) ==
  [op |-> op, ret |-> ret, calls |-> calls, raised |-> FALSE,
   live |-> g_sim # NULL, info |-> info]

\* ----------------------------------------------------------------- setters
\* Mutant: setIsa also changes the ISA of the running instance.
spike_set_isa_AppliesLive(isa_cstr) ==
  /\ g_isa_override' = IF isa_cstr = NULLSTR THEN NOSTR ELSE isa_cstr
  /\ sim' = IF g_sim # NULL /\ isa_cstr # NULLSTR
              THEN [sim EXCEPT !.isa = isa_cstr] ELSE sim
  /\ hist' = [hist EXCEPT !.isa = isa_cstr]
  /\ lastOp' = Returned("set_isa", "void", 0, isa_cstr)
  /\ UNCHANGED <<g_sim, g_dram_base_override, g_dram_size_override,
                 g_initial_pc_override>>

spike_set_isa(isa_cstr) ==
  /\ g_isa_override' = IF isa_cstr = NULLSTR THEN NOSTR ELSE isa_cstr
  /\ hist' = [hist EXCEPT !.isa = isa_cstr]
  /\ lastOp' = Returned("set_isa", "void", 0, isa_cstr)
  /\ UNCHANGED <<g_sim, sim, g_dram_base_override, g_dram_size_override,
                 g_initial_pc_override>>

spike_set_dram_base(base) ==
  /\ g_dram_base_override' = base
  /\ hist' = [hist EXCEPT !.base = base]
  /\ lastOp' = Returned("set_dram_base", "void", 0, base)
  /\ UNCHANGED <<g_sim, sim, g_isa_override, g_dram_size_override,
                 g_initial_pc_override>>

spike_set_dram_size(size) ==
  /\ g_dram_size_override' = size
  /\ hist' = [hist EXCEPT !.size = size]
  /\ lastOp' = Returned("set_dram_size", "void", 0, size)
  /\ UNCHANGED <<g_sim, sim, g_isa_override, g_dram_base_override,
                 g_initial_pc_override>>

\* Mutant: the value is not applied to the running instance.
LiveSetPc_NotApplied(s, pc, fault) == s

\* try { g_sim->dpi_set_pc((reg_t)pc); } catch (...) {}
LiveSetPc(s, pc, fault) == IF fault THEN s ELSE EngSetPc(s, pc)

\* Mutant: setPc on a live instance also stores the initial-PC override.
spike_set_pc_AlwaysStores(pc) ==
  /\ g_initial_pc_override' = pc
  /\ IF g_sim # NULL
       THEN \E fault \in BOOLEAN :
              /\ sim' = LiveSetPc(sim, pc, fault)
              /\ lastOp' = Returned("set_pc", "void", 1,
                                    [pc |-> pc, fault |-> fault])
       ELSE /\ sim' = sim
            /\ lastOp' = Returned("set_pc", "void", 0,
                                  [pc |-> pc, fault |-> FALSE])
  /\ hist' = [hist EXCEPT !.pc = IF g_sim = NULL THEN pc ELSE @,
                          !.fresh = NotFresh]
  /\ UNCHANGED <<g_sim, g_isa_override, g_dram_base_override,
                 g_dram_size_override>>

spike_set_pc(pc) ==
  /\ IF g_sim # NULL
       THEN \E fault \in BOOLEAN :
              /\ sim' = LiveSetPc(sim, pc, fault)
              /\ lastOp' = Returned("set_pc", "void", 1,
                                    [pc |-> pc, fault |-> fault])
              /\ UNCHANGED <<g_sim, cfgVars>>
       ELSE /\ g_initial_pc_override' = pc
            /\ lastOp' = Returned("set_pc", "void", 0,
                                  [pc |-> pc, fault |-> FALSE])
            /\ UNCHANGED <<g_sim, sim, g_isa_override, g_dram_base_override,
                           g_dram_size_override>>
  \* history: the latest setPc argument given while no instance existed
  /\ hist' = [hist EXCEPT !.pc = IF g_sim = NULL THEN pc ELSE @,
                          !.fresh = NotFresh]

\* ------------------------------------------------------------------ create
\* Mutant: the ISA override is ignored.
ResolvedIsa_AlwaysDefault == g_isa_default

\* g_*_override.value_or(g_*_default)
ResolvedIsa ==
  IF g_isa_override = NOSTR THEN g_isa_default ELSE g_isa_override

ResolvedDramBase ==
  IF g_dram_base_override = NOU64 THEN g_dram_base_default
                                  ELSE g_dram_base_override

ResolvedDramSize ==
  IF g_dram_size_override = NOU64 THEN g_dram_size_default
                                  ELSE g_dram_size_override

\* Mutant: the initial-PC override is ignored.
ResolvedInitialPc_AlwaysDefault == g_initial_pc_default

ResolvedInitialPc ==
  IF g_initial_pc_override = NOU64 THEN g_initial_pc_default
                                   ELSE g_initial_pc_override

\* How far a create that proceeds gets: the statement that raises, if any.
CreateOutcomes ==
  {"ok", "dram_alloc_fault", "mems_push_fault", "ctor_fault",
   "set_debug_fault", "start_fault", "reset_fault", "set_pc_fault"}

\* The outcomes in which new sim_t(...) returned and g_sim was assigned.
Constructed(outcome) ==
  outcome \in {"ok", "set_debug_fault", "start_fault", "reset_fault",
               "set_pc_fault"}

\* The outcomes that leave the try block of lines 134-152 through a catch.
Caught(outcome) ==
  outcome \in {"ctor_fault", "set_debug_fault", "start_fault", "reset_fault"}

\* The engine object when the try block of lines 134-152 is left.
EngineBuilt(outcome) ==
  LET s0 == EngConstruct(ResolvedIsa, ResolvedDramBase, ResolvedDramSize)
      s1 == EngStart(s0)
      s2 == EngReset(s1)
  IN  CASE outcome = "set_debug_fault" -> s0
        [] outcome = "start_fault" -> s0
        [] outcome = "reset_fault" -> s1
        [] outcome = "set_pc_fault" -> s2
        [] outcome = "ok" -> EngSetPc(s2, ResolvedInitialPc)
        [] OTHER -> NoSim

\* Mutant: the catch block leaves the engine and the handle as they are.
CatchRollback_KeepsHandle(handle, s) ==
  [handle |-> handle, sim |-> s, destroyed |-> FALSE]

\* catch: if (g_sim) { delete g_sim; g_sim = nullptr; }
\* The handle and the engine object the catch block leaves.
CatchRollback(handle, s) ==
  IF handle # NULL THEN [handle |-> NULL, sim |-> NoSim, destroyed |-> TRUE]
                   ELSE [handle |-> handle, sim |-> s, destroyed |-> FALSE]

\* The objects the call allocated: new cfg_t, new mem_t, new sim_t.
CreateAllocated(outcome) ==
  {"cfg"} \cup (IF outcome = "dram_alloc_fault" THEN {} ELSE {"mem"})
          \cup (IF Constructed(outcome) THEN {"sim"} ELSE {})

\* The objects the call released before it returned: delete config in the
\* catch blocks of the memory allocation, delete g_sim in those of the engine
\* (sim_owns: whether ~sim_t releases the configuration and memory it was
\* constructed with).
CreateReleased(outcome, destroyed, sim_owns) ==
  (IF outcome \in {"dram_alloc_fault", "mems_push_fault"} THEN {"cfg"} ELSE {})
  \cup (IF destroyed THEN {"sim"} ELSE {})
  \cup (IF destroyed /\ sim_owns THEN {"cfg", "mem"} ELSE {})

\* Mutant: an existing instance does not stop a create.
CreateProceeds_IgnoresLive(filename) == filename # NULLSTR

\* if (g_sim) return; if (!filename) { ...; return; }
CreateProceeds(filename) == g_sim = NULL /\ filename # NULLSTR

\* history: every one of the four setters was called with a value.
AllFourSet ==
  /\ hist.isa \notin {"unset", NULLSTR}
  /\ hist.base # NOU64
  /\ hist.size # NOU64
  /\ hist.pc # NOU64

\* spike_create from new cfg_t on, as far as outcome says: lines 93-159.
CreateRun(outcome, sim_owns) ==
  LET assigned == IF Constructed(outcome) THEN SIM ELSE NULL
      built == EngineBuilt(outcome)
      after == IF Caught(outcome)
                 THEN CatchRollback(assigned, built)
                 ELSE [handle |-> assigned, sim |-> built,
                       destroyed |-> FALSE]
      alloc == CreateAllocated(outcome)
      rel == CreateReleased(outcome, after.destroyed, sim_owns)
  IN  /\ g_sim' = after.handle
      /\ sim' = after.sim
      /\ lastOp' = Returned("create", "void",
             IF outcome \in {"dram_alloc_fault", "mems_push_fault"}
               THEN 0 ELSE 1,
             [outcome |-> outcome, allocated |-> alloc,
              released |-> rel,
              leaked |-> IF after.handle # NULL THEN {}
                                                ELSE alloc \ rel,
              isa |-> ResolvedIsa, dram_base |-> ResolvedDramBase,
              dram_size |-> ResolvedDramSize,
              pc |-> IF outcome \in {"ok", "set_pc_fault"}
                       THEN ResolvedInitialPc ELSE NOU64])
      /\ hist' = [hist EXCEPT !.fresh =
                     IF after.handle # NULL
                       THEN [on |-> TRUE, all |-> AllFourSet,
                             applied |-> outcome = "ok"]
                       ELSE NotFresh]
      /\ UNCHANGED cfgVars

spike_create(filename) ==
  IF ~CreateProceeds(filename)
    THEN /\ lastOp' = Returned("create", "void", 0,
                [outcome |-> IF g_sim # NULL THEN "exists" ELSE "null_path",
                 allocated |-> {}, released |-> {}, leaked |-> {},
                 isa |-> NOSTR, dram_base |-> NOU64, dram_size |-> NOU64,
                 pc |-> NOU64])
         /\ UNCHANGED <<progVars, hist>>
    ELSE \E outcome \in CreateOutcomes, sim_owns \in BOOLEAN :
           CreateRun(outcome, sim_owns)

\* ------------------------------------------------------------------ delete
\* Mutant: the handle keeps pointing at the destroyed engine.
HandleAfterDelete_Dangling == g_sim

\* g_sim = nullptr;
HandleAfterDelete == NULL

\* Mutant: delete also clears the four overrides.
spike_delete_ClearsOverrides ==
  /\ g_sim # NULL
  /\ sim' = NoSim
  /\ g_sim' = NULL
  /\ g_isa_override' = NOSTR
  /\ g_dram_base_override' = NOU64
  /\ g_dram_size_override' = NOU64
  /\ g_initial_pc_override' = NOU64
  /\ lastOp' = Returned("delete", "void", 1,
                        [destroyed |-> 1, twice |-> FALSE,
                         after_delete |-> lastOp.op = "delete"])
  /\ hist' = [hist EXCEPT !.fresh = NotFresh]

spike_delete ==
  IF g_sim = NULL
    THEN /\ lastOp' = Returned("delete", "void", 0,
                                [destroyed |-> 0, twice |-> FALSE,
                                 after_delete |-> lastOp.op = "delete"])
         /\ UNCHANGED <<progVars, hist>>
    ELSE /\ sim' = NoSim
         /\ g_sim' = HandleAfterDelete
         /\ lastOp' = Returned("delete", "void", 1,
                                [destroyed |-> 1, twice |-> ~sim.alive,
                                 after_delete |-> lastOp.op = "delete"])
         /\ hist' = [hist EXCEPT !.fresh = NotFresh]
         /\ UNCHANGED cfgVars

\* -------------------------------------------------------------- step, reset
\* Mutant: step reports success when there is no instance.
spike_step_AbsentReturnsZero ==
  /\ g_sim = NULL
  /\ lastOp' = Returned("step", 0, 0, "none")
  /\ UNCHANGED <<progVars, hist>>

\* Mutant: a fault inside dpi_step is reported as a status.
StepResult_FaultIsStatus(fault, status) == status

\* try { return g_sim->dpi_step(1); } catch (...) { return -1; }
StepResult(fault, status) == IF fault THEN -1 ELSE status

spike_step ==
  IF g_sim = NULL
    THEN /\ lastOp' = Returned("step", -1, 0, "none")
         /\ UNCHANGED <<progVars, hist>>
    ELSE /\ sim.nsteps < MaxSteps
         /\ \E fault \in BOOLEAN, status \in EngStepStatus :
              /\ sim' = IF fault THEN sim ELSE EngStep(sim)
              /\ lastOp' = Returned("step", StepResult(fault, status), 1,
                                    [fault |-> fault,
                                     status |-> IF fault THEN -1
                                                         ELSE status])
         /\ hist' = [hist EXCEPT !.fresh = NotFresh]
         /\ UNCHANGED <<g_sim, cfgVars>>

\* Mutant: reset builds the engine again from the configuration.
ResetEngine_Rebuilds(s, fault) == EngineBuilt("ok")

\* try { g_sim->dpi_reset(); } catch (...) {}
ResetEngine(s, fault) == IF fault THEN s ELSE EngReset(s)

spike_reset ==
  IF g_sim = NULL
    THEN /\ lastOp' = Returned("reset", "void", 0, "none")
         /\ UNCHANGED <<progVars, hist>>
    ELSE /\ \E fault \in BOOLEAN :
              /\ sim' = ResetEngine(sim, fault)
              /\ lastOp' = Returned("reset", "void", 1, [fault |-> fault])
         /\ hist' = [hist EXCEPT !.fresh = NotFresh]
         /\ UNCHANGED <<g_sim, cfgVars>>

\* --------------------------------------------------------------- accessors
\* An accessor that changes nothing: it returns ret after calls engine calls.
Observe(op, ret, calls, info) ==
  /\ lastOp' = Returned(op, ret, calls, info)
  /\ UNCHANGED <<progVars, hist>>

\* Mutant: the capacity is taken whatever the size of the register file.
Min_First(a, b) == a

\* std::min<size_t>
Min(a, b) == IF a < b THEN a ELSE b

\* history: the argument of the setPc call on a live instance that returned
\* just before this call, if that is what the last call was.
JustSetPc ==
  IF lastOp.op = "set_pc" /\ lastOp.live THEN lastOp.info.pc ELSE NOU64

spike_get_pc(hartid, fault) ==
  IF g_sim = NULL
    THEN Observe("get_pc", U64Zero, 0,
                 [hart |-> hartid, fault |-> FALSE, just_set |-> NOU64])
  ELSE IF fault \/ ~EngHasCore(sim, hartid)
    THEN Observe("get_pc", U64Zero, 1,
                 [hart |-> hartid, fault |-> TRUE, just_set |-> JustSetPc])
    ELSE Observe("get_pc", sim.pc, 1,
                 [hart |-> hartid, fault |-> FALSE, just_set |-> JustSetPc])

\* Mutant: a null output buffer is not noticed.
NoBuffer_Ignored(out) == FALSE

\* !out
NoBuffer(out) == out = "null"

\* dpi_get_all_gprs: the 32 registers copied out and the count 32, or
\* nothing and 0 when the hart does not exist.
EngGetAllGprs(s, hartid) ==
  IF EngHasCore(s, hartid)
    THEN [ret |-> NXPR, out |-> [i \in 1..NXPR |-> EngXPR(s, i)]]
    ELSE [ret |-> 0, out |-> <<>>]

\* Mutant: a fault inside dpi_get_all_gprs is reported as -1.
GprsResult_FaultIsMinusOne(fault, r) ==
  IF fault THEN [ret |-> -1, out |-> <<>>] ELSE r

\* try { return g_sim->dpi_get_all_gprs(hartid, out); }
\* catch (...) { return 0; }
GprsResult(fault, r) == IF fault THEN [ret |-> 0, out |-> <<>>] ELSE r

spike_get_all_gprs(hartid, out, fault) ==
  IF g_sim = NULL \/ NoBuffer(out)
    THEN Observe("get_all_gprs", 0, 0,
                 [out |-> <<>>, fault |-> FALSE, buf |-> out])
    ELSE LET r == GprsResult(fault, EngGetAllGprs(sim, hartid))
         IN  Observe("get_all_gprs", r.ret, 1,
                     [out |-> r.out, fault |-> fault, buf |-> out])

spike_get_csr(hartid, csr_addr, fault) ==
  IF g_sim = NULL THEN Observe("get_csr", U64Zero, 0, [fault |-> FALSE])
  ELSE IF fault \/ ~EngHasCore(sim, hartid)
    THEN Observe("get_csr", U64Zero, 1, [fault |-> fault])
    ELSE Observe("get_csr", EngCsrRead(sim, csr_addr), 1, [fault |-> FALSE])

spike_put_csr(hartid, csr_addr, value, fault) ==
  IF g_sim = NULL
    THEN /\ lastOp' = Returned("put_csr", "void", 0, [fault |-> FALSE])
         /\ UNCHANGED <<progVars, hist>>
    ELSE /\ sim' = IF fault \/ ~EngHasCore(sim, hartid)
                     THEN sim ELSE EngPutCsr(sim, csr_addr, value)
         /\ lastOp' = Returned("put_csr", "void",
                               IF EngHasCore(sim, hartid) /\ ~fault
                                 THEN 2 ELSE 1, [fault |-> fault])
         /\ UNCHANGED <<g_sim, cfgVars, hist>>

\* std::min(sizeof(st->FPR[0]), sizeof(uint64_t)) bytes of each register.
spike_get_all_fprs(hartid, out, fault) ==
  IF g_sim = NULL \/ NoBuffer(out)
    THEN Observe("get_all_fprs", 0, 0,
                 [out |-> <<>>, fault |-> FALSE, buf |-> out])
  ELSE IF fault \/ ~EngHasCore(sim, hartid)
    THEN Observe("get_all_fprs", 0, 1,
                 [out |-> <<>>, fault |-> fault, buf |-> out])
    ELSE Observe("get_all_fprs", 32, 2,
                 [out |-> [i \in 1..32 |-> EngFpr(sim, i - 1)],
                  fault |-> FALSE, buf |-> out])

\* Word q of the dump: copy_bytes bytes from byte 8q on, little-endian.
VregWord(s, q, total_bytes) ==
  LET byte_idx == q * 8
      copy_bytes == IF byte_idx < total_bytes
                      THEN Min(8, total_bytes - byte_idx) ELSE 0
      b(j) == IF j < copy_bytes THEN EngVregByte(s, byte_idx + j) ELSE 0
  IN  <<b(7) * 256 + b(6), b(5) * 256 + b(4), b(3) * 256 + b(2),
        b(1) * 256 + b(0)>>

spike_get_all_vregs(hartid, out, out_size_qwords, fault) ==
  IF g_sim = NULL \/ NoBuffer(out) \/ out_size_qwords <= 0
    THEN Observe("get_all_vregs", 0, 0,
                 [out |-> <<>>, fault |-> FALSE, hart |-> hartid,
                  buf |-> out, cap |-> out_size_qwords])
  ELSE IF fault \/ ~EngHasCore(sim, hartid) \/ sim.vlen = 0
    THEN Observe("get_all_vregs", 0, 1,
                 [out |-> <<>>, fault |-> fault, hart |-> hartid,
                  buf |-> out, cap |-> out_size_qwords])
    ELSE LET bytes_per_reg == sim.vlen \div 8
             total_bytes == bytes_per_reg * 32
             total_qwords == (total_bytes + 7) \div 8
             to_write == Min(out_size_qwords, total_qwords)
         IN  Observe("get_all_vregs", to_write, 2,
                     [out |-> [q \in 1..to_write |->
                                 VregWord(sim, q - 1, total_bytes)],
                      fault |-> FALSE, hart |-> hartid, buf |-> out,
                      cap |-> out_size_qwords])

\* What spike_get_vlen returns on a live instance: (int)p->VU.get_vlen(),
\* or 0 when the hart is missing or the engine raised.
GetVlenResult(s, hartid, fault) ==
  IF fault \/ ~EngHasCore(s, hartid) THEN 0 ELSE s.vlen

\* Mutant: getVlenb returns the width in bits.
GetVlenbResult_Bits(s, hartid, fault) ==
  IF fault \/ ~EngHasCore(s, hartid) THEN U64Zero ELSE U64Of(s.vlen)

\* What spike_get_vlenb returns on a live instance: (uint64_t)p->VU.vlenb,
\* or 0 when the hart is missing or the engine raised.
GetVlenbResult(s, hartid, fault) ==
  IF fault \/ ~EngHasCore(s, hartid) THEN U64Zero ELSE U64Of(EngVlenb(s))

spike_get_vlen(hartid, fault) ==
  IF g_sim = NULL
    THEN Observe("get_vlen", 0, 0, [fault |-> FALSE, hart |-> hartid])
    ELSE Observe("get_vlen", GetVlenResult(sim, hartid, fault),
                 IF fault \/ ~EngHasCore(sim, hartid) THEN 1 ELSE 2,
                 [fault |-> fault, hart |-> hartid])

spike_get_vlenb(hartid, fault) ==
  IF g_sim = NULL
    THEN Observe("get_vlenb", U64Zero, 0, [fault |-> FALSE, hart |-> hartid])
    ELSE Observe("get_vlenb", GetVlenbResult(sim, hartid, fault), 1,
                 [fault |-> fault, hart |-> hartid])

\* The shape shared by the vector CSR readers: the engine's value for a
\* live instance and an existing hart, 0 otherwise.
VectorCsr(op, hartid, fault, value) ==
  IF g_sim = NULL THEN Observe(op, U64Zero, 0, [fault |-> FALSE])
  ELSE IF fault \/ ~EngHasCore(sim, hartid)
    THEN Observe(op, U64Zero, 1, [fault |-> fault])
    ELSE Observe(op, value, 2, [fault |-> FALSE])

spike_get_vxsat(hartid, fault) ==
  VectorCsr("get_vxsat", hartid, fault, EngVxsat(sim))

spike_get_vxrm(hartid, fault) ==
  VectorCsr("get_vxrm", hartid, fault, EngVxrm(sim))

spike_get_vstart(hartid, fault) ==
  VectorCsr("get_vstart", hartid, fault, EngVstart(sim))

spike_get_vl(hartid, fault) ==
  VectorCsr("get_vl", hartid, fault, EngVl(sim))

spike_get_vtype(hartid, fault) ==
  VectorCsr("get_vtype", hartid, fault, EngVtype(sim))

spike_get_vcsr(hartid, csr_addr, fault) ==
  VectorCsr("get_vcsr", hartid, fault, EngCsrRead(sim, csr_addr))

\* ------------------------------------------------- sequential specification
\* Every function body runs under std::lock_guard<std::mutex> lk(g_mutex):
\* calls made one after another are the atomic actions below.
\* The accessors: calls that read the instance and change nothing.
AccessorOps ==
  {"get_pc", "get_all_gprs", "get_csr", "get_all_fprs", "get_all_vregs",
   "get_vlen", "get_vlenb", "get_vxsat", "get_vxrm", "get_vstart", "get_vl",
   "get_vtype", "get_vcsr"}

\* One call of the boundary, made by a caller that holds no unread result.
Call(A) == lastOp.op \notin AccessorOps /\ A /\ UNCHANGED mtVars

\* The caller takes the value an accessor returned; lastOp, the record of
\* the finished call, is cleared.  No program state changes.
TakeResult ==
  /\ lastOp.op \in AccessorOps
  /\ lastOp' = NoOp
  /\ UNCHANGED <<progVars, hist, mtVars>>

Next ==
  \/ \E a \in IsaArgs : Call(spike_set_isa(a))
  \/ \E a \in BaseArgs : Call(spike_set_dram_base(a))
  \/ \E a \in SizeArgs : Call(spike_set_dram_size(a))
  \/ \E a \in PcArgs : Call(spike_set_pc(a))
  \/ \E f \in PathArgs : Call(spike_create(f))
  \/ Call(spike_delete)
  \/ Call(spike_step)
  \/ Call(spike_reset)
  \/ \E c \in AccCases : Call(spike_get_pc(c[1], c[2]))
  \/ \E c \in BufCases : Call(spike_get_all_gprs(c[1], c[3], c[2]))
  \/ \E c \in CsrCases : Call(spike_get_csr(c[1], c[3], c[2]))
  \/ \E c \in CsrCases, v \in CsrValues :
       Call(spike_put_csr(c[1], c[3], v, c[2]))
  \/ \E c \in BufCases : Call(spike_get_all_fprs(c[1], c[3], c[2]))
  \/ \E c \in VregCases : Call(spike_get_all_vregs(c[1], c[3], c[4], c[2]))
  \/ \E c \in AccCases : Call(spike_get_vlen(c[1], c[2]))
  \/ \E c \in AccCases : Call(spike_get_vlenb(c[1], c[2]))
  \/ \E c \in AccCases : Call(spike_get_vxsat(c[1], c[2]))
  \/ \E c \in AccCases : Call(spike_get_vxrm(c[1], c[2]))
  \/ \E c \in AccCases : Call(spike_get_vstart(c[1], c[2]))
  \/ \E c \in AccCases : Call(spike_get_vl(c[1], c[2]))
  \/ \E c \in AccCases : Call(spike_get_vtype(c[1], c[2]))
  \/ \E c \in CsrCases : Call(spike_get_vcsr(c[1], c[3], c[2]))
  \/ TakeResult

Spec == Init /\ [][Next]_vars

\* ------------------------------------------------- concurrent specification
\* Threads call create, delete, step and getAllGprs at any time.  A call
\* takes g_mutex, runs its body and releases g_mutex as it returns; create
\* assigns g_sim and then starts, resets and positions the engine; the
\* engine's step writes the registers one at a time and its register dump
\* copies them one at a time.
MTOps == {"create", "delete", "step", "get_all_gprs"}

\* The calls of the second concurrent specification, SpecLock: those that
\* read and write g_sim and the initial-PC override.
LockOps == {"create", "delete", "set_pc", "step"}

\* Mutant: spike_get_all_gprs runs without taking g_mutex.
TakesLock_NotGetAllGprs(op) == op # "get_all_gprs"

\* Mutant: spike_create runs without taking g_mutex.
TakesLock_NotCreate(op) == op # "create"

\* std::lock_guard<std::mutex> lk(g_mutex) is the first statement of every
\* one of these functions.
TakesLock(op) == op \in MTOps \cup LockOps

\* The step calls in progress in other threads.
OtherSteps(t) == {u \in Threads \ {t} : tpc[u] # "idle" /\ tloc[u].op = "step"}

\* A thread enters a function of the boundary.
MT_Call(t, op) ==
  /\ tpc[t] = "idle"
  /\ op = "step"
       => sim.nsteps + Cardinality(OtherSteps(t)) < MaxSteps
  /\ tpc' = [tpc EXCEPT ![t] = "lock"]
  /\ tloc' = [u \in Threads |->
                IF u = t
                  THEN [NoLocals EXCEPT !.op = op, !.ovl = OtherSteps(t) # {}]
                ELSE IF op = "step" /\ tpc[u] # "idle"
                  THEN [tloc[u] EXCEPT !.ovl = TRUE]
                  ELSE tloc[u]]
  /\ UNCHANGED <<progVars, hist, lastOp, g_mutex>>

\* lock_guard's constructor: blocks until g_mutex is free, then holds it.
MT_Lock(t) ==
  /\ tpc[t] = "lock"
  /\ IF TakesLock(tloc[t].op)
       THEN g_mutex = 0 /\ g_mutex' = t
       ELSE UNCHANGED g_mutex
  /\ tpc' = [tpc EXCEPT ![t] = "body"]
  /\ tloc' = [tloc EXCEPT ![t].pre = sim]
  /\ UNCHANGED <<progVars, hist, lastOp>>

\* The outcomes of create in which new sim_t(...) raised or was not reached.
NotConstructed == {o \in CreateOutcomes : ~Constructed(o)}

\* spike_create's body up to g_sim = new sim_t(...): the early returns, the
\* faults before the engine exists, or the handle assigned to an engine that
\* is constructed and not yet started.
MT_create(t) ==
  /\ tpc[t] = "body" /\ tloc[t].op = "create"
  /\ \/ /\ ~CreateProceeds("prog.elf")
        /\ spike_create("prog.elf")
        /\ tpc' = [tpc EXCEPT ![t] = "ret"]
     \/ /\ CreateProceeds("prog.elf")
        /\ \E outcome \in NotConstructed, sim_owns \in BOOLEAN :
             CreateRun(outcome, sim_owns)
        /\ tpc' = [tpc EXCEPT ![t] = "ret"]
     \/ /\ CreateProceeds("prog.elf")
        /\ g_sim' = SIM
        /\ sim' = EngConstruct(ResolvedIsa, ResolvedDramBase,
                               ResolvedDramSize)
        /\ tpc' = [tpc EXCEPT ![t] = "eng"]
        /\ UNCHANGED <<cfgVars, hist, lastOp>>
  /\ UNCHANGED <<g_mutex, tloc>>

\* spike_create's body from set_debug to dpi_set_pc, and its catch blocks.
MT_create_end(t) ==
  /\ tpc[t] = "eng" /\ tloc[t].op = "create"
  /\ \E outcome \in CreateOutcomes \ NotConstructed, sim_owns \in BOOLEAN :
       CreateRun(outcome, sim_owns)
  /\ tpc' = [tpc EXCEPT ![t] = "ret"]
  /\ UNCHANGED <<g_mutex, tloc>>

\* spike_set_pc's body, run under the lock.
MT_set_pc(t) ==
  /\ tpc[t] = "body" /\ tloc[t].op = "set_pc"
  /\ spike_set_pc(<<0, 0, 32768, 8192>>)
  /\ tpc' = [tpc EXCEPT ![t] = "ret"]
  /\ UNCHANGED <<g_mutex, tloc>>

\* spike_delete's body, run under the lock.
MT_delete(t) ==
  /\ tpc[t] = "body" /\ tloc[t].op = "delete"
  /\ spike_delete
  /\ tpc' = [tpc EXCEPT ![t] = "ret"]
  /\ UNCHANGED <<g_mutex, tloc>>

\* spike_step: if (!g_sim) return -1; otherwise into dpi_step, which may
\* raise at once.
MT_step_begin(t) ==
  /\ tpc[t] = "body" /\ tloc[t].op = "step"
  /\ IF g_sim = NULL
       THEN /\ tloc' = [tloc EXCEPT ![t].ret = -1]
            /\ tpc' = [tpc EXCEPT ![t] = "ret"]
       ELSE \E fault \in BOOLEAN :
              /\ tloc' = [tloc EXCEPT ![t].ret = IF fault THEN -1 ELSE 0]
              /\ tpc' = [tpc EXCEPT ![t] = IF fault THEN "ret" ELSE "eng"]
  /\ UNCHANGED <<progVars, hist, lastOp, g_mutex>>

\* dpi_step writes the next register.
MT_step_write(t) ==
  /\ tpc[t] = "eng" /\ tloc[t].op = "step"
  /\ sim.xwr < NXPR
  /\ sim' = EngStepWrite(sim)
  /\ UNCHANGED <<g_sim, cfgVars, hist, lastOp, mtVars>>

\* dpi_step returns its status.
MT_step_end(t) ==
  /\ tpc[t] = "eng" /\ tloc[t].op = "step"
  /\ sim.xwr = NXPR
  /\ sim' = EngStepDone(sim)
  /\ hist' = [hist EXCEPT !.fresh = NotFresh]
  /\ \E status \in EngStepStatus : tloc' = [tloc EXCEPT ![t].ret = status]
  /\ tpc' = [tpc EXCEPT ![t] = "ret"]
  /\ UNCHANGED <<g_sim, cfgVars, lastOp, g_mutex>>

\* spike_get_all_gprs: if (!g_sim || !out) return 0; otherwise into
\* dpi_get_all_gprs.
MT_gprs_begin(t) ==
  /\ tpc[t] = "body" /\ tloc[t].op = "get_all_gprs"
  /\ IF g_sim = NULL
       THEN tpc' = [tpc EXCEPT ![t] = "ret"]
       ELSE tpc' = [tpc EXCEPT ![t] = "eng"]
  /\ UNCHANGED <<progVars, hist, lastOp, g_mutex, tloc>>

\* dpi_get_all_gprs copies the next register to out[].
MT_gprs_copy(t) ==
  /\ tpc[t] = "eng" /\ tloc[t].op = "get_all_gprs"
  /\ tloc[t].i < NXPR
  /\ tloc' = [tloc EXCEPT ![t].out = Append(@, EngXPR(sim, tloc[t].i + 1)),
                          ![t].i = @ + 1]
  /\ UNCHANGED <<progVars, hist, lastOp, g_mutex, tpc>>

\* dpi_get_all_gprs returns the count.
MT_gprs_end(t) ==
  /\ tpc[t] = "eng" /\ tloc[t].op = "get_all_gprs"
  /\ tloc[t].i = NXPR
  /\ tloc' = [tloc EXCEPT ![t].ret = NXPR]
  /\ tpc' = [tpc EXCEPT ![t] = "ret"]
  /\ UNCHANGED <<progVars, hist, lastOp, g_mutex>>

\* Mutant: spike_delete returns with g_mutex still held.
LockAfterReturn_KeptByDelete(t) ==
  IF tloc[t].op = "delete" THEN g_mutex ELSE 0

\* ~lock_guard(): g_mutex is free again once the function has returned,
\* whichever return statement or catch block it left through.
LockAfterReturn(t) == IF TakesLock(tloc[t].op) THEN 0 ELSE g_mutex

\* The function returns: lock_guard's destructor releases g_mutex.
MT_Return(t) ==
  /\ tpc[t] = "ret"
  /\ g_mutex' = LockAfterReturn(t)
  /\ tpc' = [tpc EXCEPT ![t] = "idle"]
  /\ tloc' = [tloc EXCEPT ![t] = NoLocals]
  /\ lastOp' = IF tloc[t].op \in {"step", "get_all_gprs"}
                 THEN Returned(tloc[t].op, tloc[t].ret, 1,
                               [out |-> tloc[t].out, ovl |-> tloc[t].ovl])
                 ELSE lastOp
  /\ UNCHANGED <<progVars, hist>>

NextMT ==
  \/ \E t \in Threads, op \in MTOps : MT_Call(t, op)
  \/ \E t \in Threads : MT_Lock(t)
  \/ \E t \in Threads : MT_create(t)
  \/ \E t \in Threads : MT_create_end(t)
  \/ \E t \in Threads : MT_delete(t)
  \/ \E t \in Threads : MT_step_begin(t)
  \/ \E t \in Threads : MT_step_write(t)
  \/ \E t \in Threads : MT_step_end(t)
  \/ \E t \in Threads : MT_gprs_begin(t)
  \/ \E t \in Threads : MT_gprs_copy(t)
  \/ \E t \in Threads : MT_gprs_end(t)
  \/ \E t \in Threads : MT_Return(t)

SpecMT == Init /\ [][NextMT]_vars

\* ----------------------------------------------------- lock specification
\* Threads call create, delete, setPc and step at any time.
NextLock ==
  \/ \E t \in Threads, op \in LockOps : MT_Call(t, op)
  \/ \E t \in Threads : MT_Lock(t)
  \/ \E t \in Threads : MT_create(t)
  \/ \E t \in Threads : MT_create_end(t)
  \/ \E t \in Threads : MT_delete(t)
  \/ \E t \in Threads : MT_set_pc(t)
  \/ \E t \in Threads : MT_step_begin(t)
  \/ \E t \in Threads : MT_step_write(t)
  \/ \E t \in Threads : MT_step_end(t)
  \/ \E t \in Threads : MT_Return(t)

SpecLock == Init /\ [][NextLock]_vars

\* ------------------------------------------------- liveness specification
\* Threads call create, delete and step at any time.  Only the order in
\* which calls take and release g_mutex matters here, so spike_step's body
\* is one action: it runs with g_mutex held from start to end.
LiveOps == {"create", "delete", "step"}

\* spike_step's body, run under the lock.
MT_step(t) ==
  /\ tpc[t] = "body" /\ tloc[t].op = "step"
  /\ spike_step
  /\ tloc' = [tloc EXCEPT ![t].ret = lastOp'.ret]
  /\ tpc' = [tpc EXCEPT ![t] = "ret"]
  /\ UNCHANGED g_mutex

NextLive ==
  \/ \E t \in Threads, op \in LiveOps : MT_Call(t, op)
  \/ \E t \in Threads : MT_Lock(t)
  \/ \E t \in Threads : MT_create(t)
  \/ \E t \in Threads : MT_create_end(t)
  \/ \E t \in Threads : MT_delete(t)
  \/ \E t \in Threads : MT_step(t)
  \/ \E t \in Threads : MT_Return(t)

\* The steps of thread t inside a function body, up to its return.
MT_Run(t) ==
  \/ MT_create(t) \/ MT_create_end(t) \/ MT_delete(t) \/ MT_step(t)
  \/ MT_Return(t)

\* Fair scheduling: a thread inside a body keeps running (every engine
\* call returns), and a thread waiting in lock_guard's constructor gets
\* g_mutex if it is free again and again.
SpecLiveFair ==
  /\ Init /\ [][NextLive]_vars
  /\ \A t \in Threads : WF_vars(MT_Run(t))
  /\ \A t \in Threads : SF_vars(MT_Lock(t))

\* ------------------------------------------------------------------ claims
\* What each guarded call returns when no instance exists.
AbsentSentinel(op) ==
  CASE op = "step" -> -1
    [] op \in {"get_all_gprs", "get_all_fprs", "get_all_vregs", "get_vlen"} -> 0
    [] op \in {"reset", "put_csr"} -> "void"
    [] OTHER -> U64Zero

GuardedOps == AccessorOps \cup {"step", "reset", "put_csr"}

SetterOps == {"set_isa", "set_dram_base", "set_dram_size", "set_pc"}

\* C1: whenever no instance exists, step returns -1, each of the thirteen
\* accessors returns 0, putCsr and reset change nothing, and none of them
\* calls into the engine or lets a fault out.
C1_AbsentSentinel ==
  [][(g_sim = NULL /\ lastOp'.op \in GuardedOps)
       => /\ lastOp'.ret = AbsentSentinel(lastOp'.op)
          /\ lastOp'.calls = 0
          /\ ~lastOp'.raised
          /\ UNCHANGED progVars]_vars

\* C1 witness: an accessor answered 0 without an engine call after an
\* instance had been configured and was gone again.
C1_Witness ==
  /\ g_sim = NULL
  /\ lastOp.op = "get_vtype"
  /\ lastOp.ret = U64Zero
  /\ lastOp.calls = 0
  /\ hist.isa = "RV32IMC"

\* C2: create on an existing instance, with any path argument, changes
\* neither the handle, the instance's state nor the overrides, and allocates
\* nothing.
C2_CreateOnLiveIsNoOp ==
  [][(g_sim # NULL /\ lastOp'.op = "create")
       => /\ UNCHANGED progVars
          /\ lastOp'.info.outcome = "exists"
          /\ lastOp'.info.allocated = {}
          /\ lastOp'.calls = 0]_vars

\* C2 witness: create returned on an instance that has stepped; its
\* registers and PC are the stepped ones.
C2_Witness ==
  /\ lastOp.op = "create"
  /\ lastOp.info.outcome = "exists"
  /\ g_sim = SIM
  /\ sim.nsteps = 1
  /\ g_initial_pc_override # NOU64

\* The faults after which create returns with no instance.
CreateFaults ==
  {"dram_alloc_fault", "mems_push_fault", "ctor_fault", "set_debug_fault",
   "start_fault", "reset_fault"}

\* C3: after a create that met a fault in memory allocation, engine
\* construction, start or reset, the handle is null; and a non-null handle
\* always points at an engine that was constructed, started and reset.
C3_NoHalfConstructed ==
  /\ (lastOp.op = "create" /\ lastOp.info.outcome \in CreateFaults)
       => g_sim = NULL /\ sim = NoSim
  /\ g_sim # NULL => sim.alive /\ sim.started /\ sim.was_reset

\* C3 witness: start raised after the engine was constructed, and the
\* handle is null.
C3_Witness ==
  /\ lastOp.op = "create"
  /\ lastOp.info.outcome = "start_fault"
  /\ "sim" \in lastOp.info.allocated
  /\ g_sim = NULL

\* C4: a create that returns without an instance because memory allocation,
\* the engine constructor, start or reset failed has released every object
\* it allocated (configuration, memory region, engine).
C4_FailedCreateReleasesAll ==
  (lastOp.op = "create"
     /\ lastOp.info.outcome \in {"dram_alloc_fault", "ctor_fault",
                                  "start_fault", "reset_fault"})
    => lastOp.info.leaked = {}

\* C5: delete always leaves the handle null and never touches the
\* overrides; with no instance it changes nothing and destroys nothing; with
\* an instance it destroys the engine once; a delete right after a delete
\* changes nothing.
C5_DeleteIdempotent ==
  [][lastOp'.op = "delete"
       => /\ g_sim' = NULL
          /\ UNCHANGED cfgVars
          /\ g_sim = NULL => (UNCHANGED progVars /\ lastOp'.info.destroyed = 0)
          /\ g_sim # NULL => (lastOp'.info.destroyed = 1 /\ ~lastOp'.info.twice)
          /\ lastOp.op = "delete"
               => (UNCHANGED progVars /\ lastOp'.info.destroyed = 0)]_vars

\* C5 witness: a second delete returned right after a first one.
C5_Witness ==
  /\ lastOp.op = "delete"
  /\ lastOp.info.after_delete
  /\ lastOp.info.destroyed = 0
  /\ g_sim = NULL

\* The configuration the history of setter calls asks for.
WantedIsa == IF hist.isa \in {"unset", NULLSTR} THEN "RV64GC" ELSE hist.isa
WantedDramBase == IF hist.base = NOU64 THEN <<0, 0, 32768, 0>> ELSE hist.base
WantedDramSize == IF hist.size = NOU64 THEN <<0, 0, 8192, 0>> ELSE hist.size
WantedPc == IF hist.pc = NOU64 THEN <<0, 0, 32768, 0>> ELSE hist.pc

\* C6: a create that proceeds resolves the ISA to the latest non-null
\* setIsa argument or "RV64GC", the DRAM base and size to the latest values
\* set or 0x80000000 and 512 MiB, and the initial PC to the latest setPc
\* value given while no instance existed or 0x80000000; the engine is built
\* with exactly these.
C6_OverrideElseDefault ==
  (lastOp.op = "create" /\ lastOp.info.outcome \notin {"exists", "null_path"})
    => /\ lastOp.info.isa = WantedIsa
       /\ lastOp.info.dram_base = WantedDramBase
       /\ lastOp.info.dram_size = WantedDramSize
       /\ lastOp.info.outcome \in {"ok", "set_pc_fault"}
            => /\ lastOp.info.pc = WantedPc
               /\ sim.isa = WantedIsa
               /\ sim.dram_base = WantedDramBase
               /\ sim.dram_size = WantedDramSize
       /\ lastOp.info.outcome = "ok" => sim.pc = EngTruncPc(WantedIsa, WantedPc)

\* C6 witness: a create succeeded with the ISA and PC overridden and the
\* DRAM base left at its default.
C6_Witness ==
  /\ lastOp.op = "create"
  /\ lastOp.info.outcome = "ok"
  /\ hist.isa = "RV32IMC"
  /\ hist.pc = <<0, 1, 32768, 8192>>
  /\ hist.base = NOU64
  /\ sim.isa = "RV32IMC"
  /\ sim.dram_base = <<0, 0, 32768, 0>>
  /\ sim.pc = <<0, 0, 32768, 8192>>

\* C7: only the four setters change an override: create (successful,
\* failed or no-op), delete, step, reset, putCsr and every accessor leave
\* all four unchanged.
C7_OverridesPersist ==
  [][lastOp'.op \notin SetterOps => UNCHANGED cfgVars]_vars

\* C7 witness: an instance was destroyed while all four overrides were set,
\* and they are still set.
C7_Witness ==
  /\ lastOp.op = "delete"
  /\ lastOp.info.destroyed = 1
  /\ g_isa_override = "RV32IMC"
  /\ g_dram_base_override # NOU64
  /\ g_dram_size_override # NOU64
  /\ g_initial_pc_override # NOU64

\* The case of C8: getPc(0) returned on an instance that create built after
\* all four setters were called, with no step, reset or setPc since.
FirstGetPc ==
  /\ lastOp.op = "get_pc"
  /\ lastOp.live
  /\ lastOp.info.hart = 0
  /\ hist.fresh.on
  /\ hist.fresh.all

OneSnapshot(out) == \A i \in 1..Len(out) : out[i] = out[1]

\* C10: with step and getAllGprs called from different threads, the 32
\* values a getAllGprs call returns are those of one state between steps,
\* never a mix of registers from before and after a step; the same holds of
\* the registers a call in progress has copied so far.
C10_NoTornRead ==
  /\ (lastOp.op = "get_all_gprs" /\ lastOp.ret = NXPR)
       => Len(lastOp.info.out) = NXPR /\ OneSnapshot(lastOp.info.out)
  /\ \A t \in Threads : OneSnapshot(tloc[t].out)

\* C10 witness: a getAllGprs call that overlapped a step call of another
\* thread returned the 32 registers as they are after that step.
C10_Witness ==
  /\ lastOp.op = "get_all_gprs"
  /\ lastOp.ret = NXPR
  /\ lastOp.info.ovl
  /\ lastOp.info.out[1] = 1
  /\ lastOp.info.out[NXPR] = 1

\* A thread is past its lock_guard and has not returned.
InBody(t) == tpc[t] \in {"body", "eng", "ret"}

\* create has assigned g_sim and has not yet applied the initial PC.
MidCreate(t) == tpc[t] = "eng" /\ tloc[t].op = "create"

\* The call thread t is returning from did to the engine object what the
\* same call does when run alone on the state it found at its lock_guard.
SerialEffect(t) ==
  LET pre == tloc[t].pre
  IN  /\ g_sim = IF sim.alive THEN SIM ELSE NULL
      /\ CASE tloc[t].op = "step" ->
                 \/ tloc[t].ret = -1 /\ sim = pre
                 \/ /\ tloc[t].ret \in EngStepStatus
                    /\ pre.alive /\ sim = EngStep(pre)
            [] tloc[t].op = "create" ->
                 IF pre.alive THEN sim = pre
                 ELSE sim \in {NoSim, EngineBuilt("ok"),
                               EngineBuilt("set_pc_fault")}
            [] tloc[t].op = "delete" -> sim = NoSim
            [] tloc[t].op = "set_pc" ->
                 IF pre.alive
                   THEN sim \in {pre, EngSetPc(pre, lastOp.info.pc)}
                   ELSE sim = pre /\ g_initial_pc_override = lastOp.info.pc
            [] OTHER -> sim = pre

\* C11: every access to g_sim and the overrides is made by the caller that
\* holds g_mutex, at most one caller holds it, each call's effect is that of
\* running it alone in lock-acquisition order, and while create is between
\* constructing the engine and applying the initial PC no other caller is
\* inside a function body.
C11_LockSerializes ==
  /\ [](\A t \in Threads :
          /\ InBody(t) => g_mutex = t
          /\ tpc[t] = "ret" => SerialEffect(t)
          /\ MidCreate(t) => \A u \in Threads \ {t} : ~InBody(u))
  /\ [][progVars' # progVars => g_mutex # 0 /\ InBody(g_mutex)]_vars

\* create is half-way, the handle already assigned, and a step call of
\* another thread waits for the lock.
C11_Witness ==
  \E t \in Threads, u \in Threads :
    /\ MidCreate(t) /\ g_sim = SIM /\ ~sim.started
    /\ tpc[u] = "lock" /\ tloc[u].op = "step"

\* What a call on a live instance returns when the engine raised inside it.
SwallowedResult(op) == IF op = "set_pc" THEN "void" ELSE AbsentSentinel(op)

\* C12: on a live instance an engine fault never leaves the call: step
\* returns -1, each accessor returns 0, reset, putCsr and setPc return
\* normally and the instance stays; a step without a fault advances the
\* engine by exactly one scheduling unit and returns the engine's status.
C12_FaultsSwallowed ==
  [][(g_sim # NULL /\ lastOp'.op \in GuardedOps \cup {"set_pc"})
       => /\ ~lastOp'.raised
          /\ lastOp'.info.fault
               => /\ lastOp'.ret = SwallowedResult(lastOp'.op)
                  /\ g_sim' = g_sim
          /\ (lastOp'.op = "step" /\ ~lastOp'.info.fault)
               => /\ sim' = EngStep(sim)
                  /\ sim'.nsteps = sim.nsteps + 1
                  /\ lastOp'.ret = lastOp'.info.status
                  /\ lastOp'.ret \in EngStepStatus]_vars

\* C12 witness: a step on a live instance in which the engine raised
\* returned -1, and the instance is still there.
C12_Witness ==
  /\ lastOp.op = "step" /\ lastOp.live /\ lastOp.info.fault
  /\ lastOp.ret = -1
  /\ g_sim # NULL /\ sim.alive

\* Bytes 8q..8q+7 of the vector register file as one little-endian word.
LittleEndianWord(s, q) ==
  <<EngVregByte(s, 8 * q + 7) * 256 + EngVregByte(s, 8 * q + 6),
    EngVregByte(s, 8 * q + 5) * 256 + EngVregByte(s, 8 * q + 4),
    EngVregByte(s, 8 * q + 3) * 256 + EngVregByte(s, 8 * q + 2),
    EngVregByte(s, 8 * q + 1) * 256 + EngVregByte(s, 8 * q)>>

C14_NullBufferNoEffect ==
  [][(lastOp'.op \in {"get_all_gprs", "get_all_fprs"}
        /\ lastOp'.info.buf = "null")
       => /\ lastOp'.ret = 0
          /\ lastOp'.info.out = <<>>
          /\ lastOp'.calls = 0
          /\ UNCHANGED progVars]_vars

\* C14 witness: getAllFprs with a null buffer returned 0 on a live, started
\* instance.
C14_Witness ==
  /\ lastOp.op = "get_all_fprs" /\ lastOp.info.buf = "null"
  /\ lastOp.live /\ sim.started
  /\ lastOp.ret = 0

\* C15: whatever the state, the hart id and the buffer, getAllGprs returns
\* 32, with exactly 32 words stored, or 0; it returns no other count.
C15_GprCountIs32Or0 ==
  lastOp.op = "get_all_gprs" =>
    /\ lastOp.ret \in {0, 32}
    /\ lastOp.ret = 32 => Len(lastOp.info.out) = 32
    /\ lastOp.ret = 0 => Len(lastOp.info.out) = 0

\* C15 witness: after one step getAllGprs returned 32 and the 32 registers
\* of hart 0.
C15_Witness ==
  /\ lastOp.op = "get_all_gprs" /\ lastOp.ret = 32
  /\ sim.nsteps = 1
  /\ Len(lastOp.info.out) = 32
  /\ \A i \in 1..32 : lastOp.info.out[i] = EngXPR(sim, i)

\* C16: reset changes nothing when no instance exists; on a live instance
\* it makes the engine's reset call and nothing else: the handle and the
\* engine object stay, the ISA and memory the engine was built with stay,
\* the overrides are neither used nor changed, and the architectural state
\* is the engine's reset state (or untouched if the engine raised).
C16_ResetKeepsInstance ==
  [][lastOp'.op = "reset"
       => IF g_sim = NULL
            THEN lastOp'.calls = 0 /\ UNCHANGED progVars
            ELSE /\ lastOp'.calls = 1
                 /\ g_sim' = g_sim
                 /\ UNCHANGED cfgVars
                 /\ sim'.alive /\ sim'.started = sim.started
                 /\ sim'.isa = sim.isa /\ sim'.vlen = sim.vlen
                 /\ sim'.dram_base = sim.dram_base
                 /\ sim'.dram_size = sim.dram_size
                 /\ sim' \in {sim, EngReset(sim)}
                 /\ ~lastOp'.info.fault
                      => sim'.pc = EngResetPc /\ sim'.nsteps = 0]_vars

\* C16 witness: a reset of a live instance whose ISA differs from the ISA
\* override now stored left that instance at the engine's reset PC.
C16_Witness ==
  /\ lastOp.op = "reset" /\ lastOp.live /\ ~lastOp.info.fault
  /\ g_sim = SIM /\ sim.alive
  /\ sim.pc = EngResetPc
  /\ g_isa_override = "RV32IMC" /\ sim.isa = "RV64GC"
  /\ g_initial_pc_override # NOU64

\* C17: setIsa, setDramBase and setDramSize called on a live instance store
\* their argument in their own override and change nothing else: the
\* handle, the engine object (its ISA, memory base and size, architectural
\* state) and the other three overrides stay as they were.
C17_LiveSettersOnlyStore ==
  [][(g_sim # NULL
        /\ lastOp'.op \in {"set_isa", "set_dram_base", "set_dram_size"})
       => /\ g_sim' = g_sim
          /\ sim' = sim
          /\ lastOp'.calls = 0
          /\ g_initial_pc_override' = g_initial_pc_override
          /\ IF lastOp'.op = "set_isa"
               THEN /\ g_isa_override' = IF lastOp'.info = NULLSTR
                                           THEN NOSTR ELSE lastOp'.info
                    /\ UNCHANGED <<g_dram_base_override,
                                   g_dram_size_override>>
             ELSE IF lastOp'.op = "set_dram_base"
               THEN /\ g_dram_base_override' = lastOp'.info
                    /\ UNCHANGED <<g_isa_override, g_dram_size_override>>
               ELSE /\ g_dram_size_override' = lastOp'.info
                    /\ UNCHANGED <<g_isa_override,
                                   g_dram_base_override>>]_vars

\* C17 witness: setIsa("RV32IMC") returned on a live RV64GC instance, which
\* is still an RV64GC instance with its memory where it was.
C17_Witness ==
  /\ lastOp.op = "set_isa" /\ lastOp.live /\ lastOp.info = "RV32IMC"
  /\ g_isa_override = "RV32IMC"
  /\ g_sim = SIM /\ sim.alive /\ sim.isa = "RV64GC"
  /\ sim.dram_base = g_dram_base_default

\* C18: on a live instance, for a hart the engine has and serves without
\* raising, what getVlenb returned is an eighth of what getVlen returns for
\* that hart.
C18_VlenbIsVlenDiv8 ==
  (lastOp.op = "get_vlenb" /\ lastOp.live
     /\ EngHasCore(sim, lastOp.info.hart) /\ ~lastOp.info.fault)
    => lastOp.ret
         = U64Of(GetVlenResult(sim, lastOp.info.hart, FALSE) \div 8)

\* C18 witness: getVlenb(0) returned 16 on an instance whose getVlen(0) is
\* 128.
C18_Witness ==
  /\ lastOp.op = "get_vlenb" /\ lastOp.live /\ ~lastOp.info.fault
  /\ lastOp.info.hart = 0
  /\ GetVlenResult(sim, 0, FALSE) = 128
  /\ lastOp.ret = <<0, 0, 0, 16>>

\* C19: setPc does one of two things, by whether an instance exists when it
\* is called: with none it stores its argument as the initial-PC override
\* and touches nothing else; with one it makes the engine's set-PC call on
\* the running instance and leaves all four overrides as they were.  So
\* the PC a later create applies is the argument of the latest setPc made
\* while no instance existed (or the default), never that of a live setPc.
C19_SetPcEitherStoresOrApplies ==
  /\ []((hist.fresh.on /\ hist.fresh.applied)
          => /\ sim.pc = EngTruncPc(sim.isa, WantedPc)
             /\ g_initial_pc_override = hist.pc)
  /\ [][lastOp'.op = "set_pc"
          => IF g_sim = NULL
               THEN /\ g_initial_pc_override' = lastOp'.info.pc
                    /\ lastOp'.calls = 0
                    /\ UNCHANGED <<g_sim, sim, g_isa_override,
                                   g_dram_base_override,
                                   g_dram_size_override>>
               ELSE /\ UNCHANGED <<g_sim, cfgVars>>
                    /\ lastOp'.calls = 1
                    /\ sim' \in {sim, EngSetPc(sim, lastOp'.info.pc)}
                    /\ ~lastOp'.info.fault
                         => sim' = EngSetPc(sim, lastOp'.info.pc)]_vars

\* C19 witness: setPc on a live instance moved the running PC to its
\* argument while the stored initial-PC override holds another value.
C19_Witness ==
  /\ lastOp.op = "set_pc" /\ lastOp.live /\ ~lastOp.info.fault
  /\ sim.alive /\ sim.pc = EngTruncPc(sim.isa, lastOp.info.pc)
  /\ g_initial_pc_override # NOU64
  /\ g_initial_pc_override # lastOp.info.pc

====
